---------------------------- MODULE Spec2Model ----------------------------
(***************************************************************************)
(* ptq (PyTorch job queue): the job registry (ptq/job.py, ptq/ssh.py), the *)
(* agent launcher (ptq/agent.py launch_agent) and the operator commands    *)
(* run, auto, kill and clean (ptq/cli.py), as a state machine.             *)
(*                                                                         *)
(* The registry is the JSON document ~/.ptq/jobs.json: a dict from job id  *)
(* to an entry.  Every read of an entry field in the source goes through   *)
(* dict.get, so an absent key and a None value are indistinguishable to    *)
(* the program; an entry is a record with every field present and a falsy  *)
(* sentinel (NoPid, NoMachine, NoRes, FALSE) for "absent".                 *)
(***************************************************************************)
EXTENDS Integers, Sequences, FiniteSets, TLC

(***************************************************************************)
(* Bounds of the model.                                                    *)
(***************************************************************************)
MaxDay == 2
MaxCmds == 2
MaxDeep == 3
MaxKeep == 1
MaxText == 4
MaxLines == 2

Days == 1..MaxDay
Issues == {9}
Machines == {"m1"}
ResIds == {"r1"}
AdhocTexts == {"task A"}
NoMsg == "<None>"
Steering == {NoMsg, "try X"}

NoIssue == -1
NoPid == 0
NoMachine == ""
NoRes == ""
LocalTarget == "<local>"

WsLocal == "~/.ptq_workspace"
WsRemote == "~/ptq_workspace"

(***************************************************************************)
(* Job ids are strings "<date>-<issue>" or "<date>-adhoc-<6 hex>".  An id  *)
(* is kept as its components; IdStr renders the characters (ASCII codes)   *)
(* so that sorted() on ids, which compares the strings, can be modelled.   *)
(***************************************************************************)
RECURSIVE Digits(_)
Digits(n) == IF n < 10 THEN <<48 + n>> ELSE Digits(n \div 10) \o <<48 + (n % 10)>>

DateOf(d) == 20260216 + d

Md5Short(text) ==
    CASE text = "adhoc"  -> <<57, 48, 102, 52, 53, 49>>
      [] text = "task A" -> <<100, 48, 54, 54, 48, 54>>
      [] text = "task B" -> <<57, 51, 99, 52, 54, 101>>
      [] OTHER           -> <<53, 100, 52, 49, 52, 48>>

NoHash == <<>>
NoJob == [date |-> 0, issue |-> NoIssue, hash |-> NoHash]

MakeJobId(d, issue_number, message) ==
    IF issue_number /= NoIssue
    THEN [date |-> DateOf(d), issue |-> issue_number, hash |-> NoHash]
    ELSE [date |-> DateOf(d), issue |-> NoIssue,
          hash |-> Md5Short(IF message = NoMsg THEN "adhoc" ELSE message)]

IdStr(id) ==
    Digits(id.date) \o <<45>> \o
    (IF id.issue /= NoIssue THEN Digits(id.issue)
     ELSE <<97, 100, 104, 111, 99, 45>> \o id.hash)

RECURSIVE StrLess(_, _)
StrLess(a, b) ==
    IF b = <<>> THEN FALSE
    ELSE IF a = <<>> THEN TRUE
    ELSE IF Head(a) /= Head(b) THEN Head(a) < Head(b)
    ELSE StrLess(Tail(a), Tail(b))

IdLess(a, b) == StrLess(IdStr(a), IdStr(b))

MaxId(S) == CHOOSE x \in S : \A y \in S : y = x \/ IdLess(y, x)

JobIds ==
    { MakeJobId(d, n, NoMsg) : d \in Days, n \in Issues } \cup
    { MakeJobId(d, NoIssue, m) : d \in Days, m \in AdhocTexts \cup {NoMsg} }

(***************************************************************************)
(* The registry functions of ptq/job.py, as functions of the loaded        *)
(* document db (load_jobs_db ... save_jobs_db around each of them).        *)
(***************************************************************************)
FindExistingJob(db, issue_number, machine, local) ==
    LET matches == { j \in DOMAIN db :
                       /\ db[j].issue = issue_number
                       /\ \/ local /\ db[j].local
                          \/ machine /= NoMachine /\ db[j].machine = machine }
    IN IF matches = {} THEN NoJob ELSE MaxId(matches)

\* the machine is stored whatever the value of local
RegisterJobKeepsMachine(db, job_id, issue_number, machine, local, workspace, run_number) ==
    LET entry == [issue |-> issue_number, runs |-> run_number,
                  local |-> local, machine |-> machine,
                  workspace |-> workspace,
                  pid |-> NoPid, reservation_id |-> NoRes]
    IN [j \in DOMAIN db \cup {job_id} |-> IF j = job_id THEN entry ELSE db[j]]

RegisterJob(db, job_id, issue_number, machine, local, workspace, run_number) ==
    LET entry == IF local
                 THEN [issue |-> issue_number, runs |-> run_number,
                       local |-> TRUE, machine |-> NoMachine,
                       workspace |-> workspace,
                       pid |-> NoPid, reservation_id |-> NoRes]
                 ELSE [issue |-> issue_number, runs |-> run_number,
                       local |-> FALSE, machine |-> machine,
                       workspace |-> workspace,
                       pid |-> NoPid, reservation_id |-> NoRes]
    IN [j \in DOMAIN db \cup {job_id} |-> IF j = job_id THEN entry ELSE db[j]]

IncrementRunLost(db, job_id) == db

IncrementRunKeepsPid(db, job_id) ==
    [db EXCEPT ![job_id] = [@ EXCEPT !.runs = @ + 1]]

IncrementRun(db, job_id) ==
    [db EXCEPT ![job_id] = [@ EXCEPT !.runs = @ + 1, !.pid = NoPid]]

SavePid(db, job_id, pid) ==
    IF job_id \notin DOMAIN db THEN db
    ELSE [db EXCEPT ![job_id].pid = pid]

\* db.setdefault(job_id, {}) instead of the early return
SaveReservationIdCreates(db, job_id, reservation_id) ==
    IF job_id \in DOMAIN db
    THEN [db EXCEPT ![job_id].reservation_id = reservation_id]
    ELSE [j \in DOMAIN db \cup {job_id} |->
            IF j = job_id
            THEN [issue |-> NoIssue, runs |-> 0, local |-> FALSE,
                  machine |-> NoMachine, workspace |-> WsRemote,
                  pid |-> NoPid, reservation_id |-> reservation_id]
            ELSE db[j]]

SaveReservationId(db, job_id, reservation_id) ==
    IF job_id \notin DOMAIN db THEN db
    ELSE [db EXCEPT ![job_id].reservation_id = reservation_id]

GetReservationId(db, job_id) ==
    IF job_id \notin DOMAIN db THEN NoRes ELSE db[job_id].reservation_id

DropJob(db, job_id) == [j \in DOMAIN db \ {job_id} |-> db[j]]


(***************************************************************************)
(* State.                                                                  *)
(*   day     the current date (datetime.now() in make_job_id)              *)
(*   db      the persisted registry (~/.ptq/jobs.json)                     *)
(*   procs   the agent processes started by launch_background, with the    *)
(*           target they run on and whether they are still alive           *)
(*   fs      the job directories on the targets: (target, job id) -> the   *)
(*           run-boundary headers of worklog.md, in file order             *)
(*   res     the reservations of the provider and their state              *)
(*   cancelCalls  the reservations cancel_reservation was called for       *)
(*   pc, L   position and local variables of the running command           *)
(*   result  what the last completed command returned                      *)
(*   trail   the commands completed so far, as long as they are successful *)
(*           dispatches of one issue to one target ("broken" otherwise)    *)
(*   ncmd    the number of operator commands started so far                *)
(*   peer    position and local variables of a second ptq invocation that  *)
(*           runs at the same time as the command of pc and L              *)
(***************************************************************************)
VARIABLES day, db, procs, fs, res, cancelCalls, pc, L, result, trail, ncmd,
          peer

vars == <<day, db, procs, fs, res, cancelCalls, pc, L, result, trail, ncmd,
          peer>>

Targets == {LocalTarget} \cup Machines \cup { "pod-" \o r : r \in ResIds }

PodName(r) == "pod-" \o r

BackendTarget(machine, local) == IF local THEN LocalTarget ELSE machine

BackendWorkspace(local) == IF local THEN WsLocal ELSE WsRemote

\* ptq/ssh.py backend_for_job: the backend derived from a registry entry
BackendForJob(entry) == IF entry.local THEN LocalTarget ELSE entry.machine

NoResult ==
    [op |-> "none", outcome |-> "none", issue |-> NoIssue,
     machine |-> NoMachine, local |-> FALSE, job |-> NoJob, run |-> 0,
     pid |-> NoPid, res |-> NoRes, message |-> NoMsg,
     keep |-> 0, all |-> FALSE, follow |-> FALSE,
     fetched |-> {}, missing |-> {}, fault |-> "none", answer |-> FALSE,
     text |-> << >>, max_lines |-> 0, out |-> << >>]

NoTrail == [st |-> "fresh", issue |-> NoIssue, machine |-> NoMachine,
            local |-> FALSE, job |-> NoJob, msgs |-> << >>]

BrokenTrail == [NoTrail EXCEPT !.st = "broken"]

IdleL ==
    [cmd |-> "none", issue |-> NoIssue, machine |-> NoMachine,
     local |-> FALSE, follow |-> FALSE, message |-> NoMsg,
     existing |-> FALSE, job |-> NoJob, run |-> 0, pid |-> NoPid,
     res |-> NoRes, outcome |-> "none", db |-> << >>, rerun |-> NoJob,
     before |-> << >>]

\* no second invocation
NoPeer == [pc |-> "none", job |-> NoJob, db |-> << >>]

Init ==
    /\ day = 1
    /\ db = << >>
    /\ procs = {}
    /\ fs = << >>
    /\ res = [r \in ResIds |-> "none"]
    /\ cancelCalls = {}
    /\ pc = "idle"
    /\ L = IdleL
    /\ result = NoResult
    /\ trail = NoTrail
    /\ ncmd = 0
    /\ peer = NoPeer

(***************************************************************************)
(* Backend process primitives (launch_background, is_pid_alive, kill_pid). *)
(***************************************************************************)
NextPid(ps, target) == 1 + Cardinality({ p \in ps : p.target = target })

LaunchBackground(ps, target, job, run) ==
    ps \cup {[target |-> target, pid |-> NextPid(ps, target),
              job |-> job, run |-> run, alive |-> TRUE]}

IsPidAlive(ps, target, pid) ==
    \E p \in ps : p.target = target /\ p.pid = pid /\ p.alive

KillPid(ps, target, pid) ==
    { IF p.target = target /\ p.pid = pid THEN [p EXCEPT !.alive = FALSE] ELSE p
      : p \in ps }

\* tearing a pod down ends every process that runs on it
TearDown(ps, target) ==
    { IF p.target = target THEN [p EXCEPT !.alive = FALSE] ELSE p : p \in ps }

(***************************************************************************)
(* ptq/agent.py _stamp_worklog_header: append "## Run <n>" and, when a     *)
(* message was given, the "> **User:** <message>" line.                    *)
(***************************************************************************)
StampNothing(worklog, run_number, message) == worklog

StampWithoutUser(worklog, run_number, message) ==
    Append(worklog, [run |-> run_number, user |-> NoMsg])

StampWorklogHeader(worklog, run_number, message) ==
    Append(worklog, [run |-> run_number, user |-> message])

JobDirs == DOMAIN fs

Mkdir(f, target, job) ==
    IF <<target, job>> \in DOMAIN f THEN f
    ELSE [k \in DOMAIN f \cup {<<target, job>>} |->
            IF k = <<target, job>> THEN << >> ELSE f[k]]

RmRf(f, target, job) == [k \in DOMAIN f \ {<<target, job>>} |-> f[k]]


(***************************************************************************)
(* Completion of a command: what it returned becomes result.               *)
(***************************************************************************)
Outcome(op, outcome) ==
    [op |-> op, outcome |-> outcome, issue |-> L.issue,
     machine |-> L.machine, local |-> L.local, job |-> L.job, run |-> L.run,
     pid |-> L.pid, res |-> L.res, message |-> L.message,
     keep |-> 0, all |-> FALSE, follow |-> L.follow,
     fetched |-> {}, missing |-> {}, fault |-> "none", answer |-> FALSE,
     text |-> << >>, max_lines |-> 0, out |-> << >>]

\* launch_agent returned the job id: the agent was launched
Successful(r) ==
    r.op = "run" /\ r.outcome \in {"launched", "finished", "detached"}

Extend(t, r) ==
    IF Successful(r) /\ t.st = "fresh"
    THEN [st |-> "ok", issue |-> r.issue, machine |-> r.machine,
          local |-> r.local, job |-> r.job, msgs |-> <<r.message>>]
    ELSE IF /\ Successful(r) /\ t.st = "ok"
            /\ r.issue = t.issue /\ r.machine = t.machine /\ r.local = t.local
    THEN [t EXCEPT !.msgs = Append(@, r.message)]
    ELSE BrokenTrail

Finish(r) ==
    /\ pc' = "idle"
    /\ L' = IdleL
    /\ result' = r
    /\ trail' = Extend(trail, r)

\* an operator command starts: one command at a time
StartCmd ==
    /\ pc = "idle"
    /\ ncmd' = ncmd + 1

\* launch_agent returned or raised: "run" ends there, "auto" goes on with
\* the reservation bookkeeping (normal return) or its finally block (raise)
Raised(outcome) == outcome \in {"aborted", "crashed"}

LeaveLaunch(outcome) ==
    IF L.cmd = "run"
    THEN Finish(Outcome("run", outcome))
    ELSE /\ pc' = IF Raised(outcome) THEN "auto_finally" ELSE "auto_track"
         /\ L' = [L EXCEPT !.outcome = outcome]
         /\ UNCHANGED <<result, trail>>

(***************************************************************************)
(* ptq/agent.py launch_agent, lines 215-234: resolve the job id.  A found  *)
(* job is continued (increment_run is applied at once); otherwise an id is *)
(* minted and the run number is 1.  L.before keeps the registry as it was  *)
(* when launch_agent was called.                                           *)
(***************************************************************************)
EnterLaunch(cmd, issue_number, machine, local, follow, message, rid, rerun) ==
    LET existing == IF issue_number = NoIssue THEN NoJob
                    ELSE FindExistingJob(db, issue_number, machine, local)
        found    == existing /= NoJob
        job_id   == IF found THEN existing
                    ELSE MakeJobId(day, issue_number, message)
    IN /\ db' = IF found THEN IncrementRun(db, job_id) ELSE db
       /\ L' = [cmd |-> cmd, issue |-> issue_number, machine |-> machine,
                local |-> local, follow |-> follow, message |-> message,
                existing |-> found, job |-> job_id,
                run |-> IF found THEN db[job_id].runs + 1 ELSE 1,
                pid |-> NoPid, res |-> rid, outcome |-> "none", db |-> << >>,
                rerun |-> rerun, before |-> <<db>>]
       /\ pc' = IF found THEN "validate" ELSE "mkdir"

\* ptq/cli.py run, dispatch of an issue (--issue) or of an adhoc task (-m)
Run(issue_number, machine, local, follow, message) ==
    /\ StartCmd
    /\ machine /= NoMachine \/ local
    /\ issue_number /= NoIssue \/ message /= NoMsg
    /\ EnterLaunch("run", issue_number, machine, local, follow, message, NoRes,
                   NoJob)
    /\ UNCHANGED <<peer, day, procs, fs, res, cancelCalls, result, trail>>

LaunchTarget == BackendTarget(L.machine, L.local)

\* a setup command of launch_agent succeeds
StepOk ==
    /\ \/ pc = "validate" /\ pc' = "mkdir"
       \/ pc = "worktree" /\ pc' = "settings"
       \/ pc = "settings" /\ pc' = "stamp"
       \/ pc = "upload"   /\ pc' = "register"
                          /\ (L.issue /= NoIssue \/ L.message /= NoMsg)
       \/ pc = "touch"    /\ pc' = "launch"
    /\ UNCHANGED <<peer, day, db, procs, fs, res, cancelCalls, L, result, trail, ncmd>>

StepFailsAfterLaunch ==
    /\ pc \in {"validate", "mkdir", "worktree", "settings", "stamp",
               "upload", "touch", "savepid"}
    /\ LeaveLaunch("aborted")
    /\ UNCHANGED <<peer, day, db, procs, fs, res, cancelCalls, ncmd>>

\* a setup command of launch_agent fails (SystemExit, CalledProcessError):
\* launch_agent raises
StepFails ==
    /\ pc \in {"validate", "mkdir", "worktree", "settings", "stamp",
               "upload", "touch"}
    /\ LeaveLaunch("aborted")
    /\ UNCHANGED <<peer, day, db, procs, fs, res, cancelCalls, ncmd>>

\* lines 310-319: an adhoc launch without a message has agent_message =
\* None, and agent_message.replace raises (AttributeError)
EscapeMessageFails ==
    /\ pc = "upload"
    /\ L.issue = NoIssue
    /\ L.message = NoMsg
    /\ LeaveLaunch("aborted")
    /\ UNCHANGED <<peer, day, db, procs, fs, res, cancelCalls, ncmd>>

MkdirJobDir ==
    /\ pc = "mkdir"
    /\ fs' = Mkdir(fs, LaunchTarget, L.job)
    /\ pc' = "worktree"
    /\ UNCHANGED <<peer, day, db, procs, res, cancelCalls, L, result, trail, ncmd>>

StampWorklog ==
    /\ pc = "stamp"
    /\ <<LaunchTarget, L.job>> \in DOMAIN fs
    /\ fs' = [fs EXCEPT ![<<LaunchTarget, L.job>>] =
                StampWorklogHeader(@, L.run, L.message)]
    /\ pc' = "upload"
    /\ UNCHANGED <<peer, day, db, procs, res, cancelCalls, L, result, trail, ncmd>>

Register ==
    /\ pc = "register"
    /\ db' = IF L.existing THEN db
             ELSE RegisterJob(db, L.job, L.issue, L.machine, L.local,
                              BackendWorkspace(L.local), L.run)
    /\ pc' = "touch"
    /\ UNCHANGED <<peer, day, procs, fs, res, cancelCalls, L, result, trail, ncmd>>

Launch ==
    /\ pc = "launch"
    /\ procs' = LaunchBackground(procs, LaunchTarget, L.job, L.run)
    /\ L' = [L EXCEPT !.pid = NextPid(procs, LaunchTarget)]
    /\ pc' = "savepid"
    /\ UNCHANGED <<peer, day, db, fs, res, cancelCalls, result, trail, ncmd>>

RecordPid ==
    /\ pc = "savepid"
    /\ db' = SavePid(db, L.job, L.pid)
    /\ pc' = IF L.follow THEN "follow" ELSE "nofollow"
    /\ UNCHANGED <<peer, day, procs, fs, res, cancelCalls, L, result, trail, ncmd>>

\* follow is off: launch_agent returns the job id at once
ReturnJobId ==
    /\ pc = "nofollow"
    /\ LeaveLaunch("launched")
    /\ UNCHANGED <<peer, day, db, procs, fs, res, cancelCalls, ncmd>>

\* the follow loop: the tail stream ends, the operator interrupts, or a
\* line that starts with "{" is not valid JSON and json.loads raises
StreamEnds ==
    /\ pc = "follow"
    /\ LeaveLaunch("finished")
    /\ UNCHANGED <<peer, day, db, procs, fs, res, cancelCalls, ncmd>>

\* KeyboardInterrupt: tail.terminate(), tail.wait() end the local tail of
\* the log; the processes on the target are not touched
TerminateAgent(ps, target, pid) ==
    { IF p.target = target /\ p.pid = pid THEN [p EXCEPT !.alive = FALSE] ELSE p
      : p \in ps }

TerminateTail(ps, target, pid) == ps

Interrupt ==
    /\ pc = "follow"
    /\ procs' = TerminateTail(procs, LaunchTarget, L.pid)
    /\ LeaveLaunch("detached")
    /\ UNCHANGED <<peer, day, db, fs, res, cancelCalls, ncmd>>

DecodeFails ==
    /\ pc = "follow"
    /\ LeaveLaunch("crashed")
    /\ UNCHANGED <<peer, day, db, procs, fs, res, cancelCalls, ncmd>>

\* the environment: an agent process ends by itself; the date changes
AgentExits ==
    /\ pc \in {"idle", "follow"}
    /\ \E p \in procs :
         /\ p.alive
         /\ procs' = (procs \ {p}) \cup {[p EXCEPT !.alive = FALSE]}
    /\ UNCHANGED <<peer, day, db, fs, res, cancelCalls, pc, L, result, trail, ncmd>>

NextDay ==
    /\ pc = "idle"
    /\ day < MaxDay
    /\ day' = day + 1
    /\ UNCHANGED <<peer, db, procs, fs, res, cancelCalls, pc, L, result, trail,
                   ncmd>>


(***************************************************************************)
(* ptq/cli.py auto: reserve a pod, set it up, launch the agent on it,      *)
(* record the reservation with the job, fetch the results and, in the      *)
(* finally block, cancel the reservation when following.                   *)
(***************************************************************************)
PrInstruction == "<pr instruction>"

\* what can fail in a call of the provider: the import of gpu_dev_cli, the
\* construction of Config and ReservationManager, authenticate_user, or the
\* provider's cancel_reservation itself
Faults == {"none", "import", "config", "auth", "cancel"}

\* ptq/provision.py _get_config_and_manager: the exception it raises ("" when
\* it returns); an ImportError becomes SystemExit
GetConfigAndManager(fault) ==
    IF fault = "import" THEN "SystemExit"
    ELSE IF fault = "config" THEN "Exception"
    ELSE ""

\* ptq/provision.py cancel_reservation: try ... except Exception: return
\* False.  SystemExit is not a subclass of Exception.
CancelReservation(fault, answer) ==
    LET e == IF GetConfigAndManager(fault) /= "" THEN GetConfigAndManager(fault)
             ELSE IF fault \in {"auth", "cancel"} THEN "Exception"
             ELSE ""
    IN IF e = "" THEN [raised |-> "", value |-> answer]
       ELSE IF e = "Exception" THEN [raised |-> "", value |-> FALSE]
       ELSE [raised |-> e, value |-> FALSE]

\* cancel_reservation(rid) with the provider's answer ok: a cancelled
\* reservation loses its pod and every process on it
CancelEffect(rid, ok) ==
    /\ cancelCalls' = cancelCalls \cup {rid}
    /\ IF ok /\ res[rid] = "active"
       THEN /\ res' = [res EXCEPT ![rid] = "cancelled"]
            /\ procs' = TearDown(procs, PodName(rid))
       ELSE UNCHANGED <<res, procs>>

\* create_reservation raises: before anything was reserved, or after the
\* provider created the reservation (no pod within the wait)
AutoReserveFails(issue_number, follow) ==
    /\ StartCmd
    /\ \E rid \in ResIds, created \in BOOLEAN :
         /\ res[rid] = "none"
         /\ res' = IF created THEN [res EXCEPT ![rid] = "active"] ELSE res
         /\ Finish([NoResult EXCEPT !.op = "auto", !.outcome = "no_reservation",
                                    !.issue = issue_number,
                                    !.follow = follow])
    /\ UNCHANGED <<peer, day, db, procs, fs, cancelCalls>>

AutoReserve(issue_number, follow, no_pr) ==
    /\ StartCmd
    /\ \E rid \in ResIds :
         /\ res[rid] = "none"
         /\ res' = [res EXCEPT ![rid] = "active"]
         /\ L' = [IdleL EXCEPT !.cmd = "auto", !.issue = issue_number,
                               !.machine = PodName(rid), !.follow = follow,
                               !.message = IF no_pr THEN NoMsg ELSE PrInstruction,
                               !.res = rid]
    /\ pc' = "auto_setup"
    /\ UNCHANGED <<peer, day, db, procs, fs, cancelCalls, result, trail>>

\* setup_workspace and the GitHub configuration of the pod raise
AutoSetupFails ==
    /\ pc = "auto_setup"
    /\ pc' = "auto_finally"
    /\ L' = [L EXCEPT !.outcome = "aborted"]
    /\ UNCHANGED <<peer, day, db, procs, fs, res, cancelCalls, result, trail, ncmd>>

AutoLaunch ==
    /\ pc = "auto_setup"
    /\ EnterLaunch("auto", L.issue, L.machine, FALSE, L.follow, L.message, L.res,
                   NoJob)
    /\ UNCHANGED <<peer, day, procs, fs, res, cancelCalls, result, trail, ncmd>>

\* launch_agent returned a job id: save_reservation_id, then fetch_results
\* inside try/except Exception
AutoTrack ==
    /\ pc = "auto_track"
    /\ db' = SaveReservationId(db, L.job, L.res)
    /\ pc' = "auto_finally"
    /\ UNCHANGED <<peer, day, procs, fs, res, cancelCalls, L, result, trail, ncmd>>

AutoFinallyLeavesReservation ==
    /\ pc = "auto_finally"
    /\ Finish(Outcome("auto", L.outcome))
    /\ UNCHANGED <<peer, day, db, procs, fs, res, cancelCalls, ncmd>>

\* the finally block also takes the cancelled reservation off the entries
AutoFinallyClearsId ==
    /\ pc = "auto_finally"
    /\ IF L.res /= NoRes /\ L.follow
       THEN /\ \E ok \in BOOLEAN : CancelEffect(L.res, ok)
            /\ db' = [j \in DOMAIN db |->
                        IF db[j].reservation_id = L.res
                        THEN [db[j] EXCEPT !.reservation_id = NoRes]
                        ELSE db[j]]
       ELSE UNCHANGED <<res, procs, cancelCalls, db>>
    /\ Finish(Outcome("auto", L.outcome))
    /\ UNCHANGED <<peer, day, fs, ncmd>>

\* the finally block of auto: cancel_reservation when following
AutoFinally ==
    /\ pc = "auto_finally"
    /\ IF L.res /= NoRes /\ L.follow
       THEN \E ok \in BOOLEAN : CancelEffect(L.res, ok)
       ELSE UNCHANGED <<res, procs, cancelCalls>>
    /\ Finish(Outcome("auto", L.outcome))
    /\ UNCHANGED <<peer, day, db, fs, ncmd>>

(***************************************************************************)
(* ptq/job.py resolve_job_id: a token is a job id or an issue number.      *)
(***************************************************************************)
IdToken(id) == [isdigit |-> FALSE, id |-> id, issue |-> NoIssue]
IssueToken(n) == [isdigit |-> TRUE, id |-> NoJob, issue |-> n]

Tokens == { IdToken(j) : j \in JobIds } \cup { IssueToken(n) : n \in Issues }

\* sorted(matches)[0] instead of [-1]
ResolveJobIdOldest(d, token) ==
    IF ~token.isdigit /\ token.id \in DOMAIN d
    THEN [err |-> "", id |-> token.id]
    ELSE IF token.isdigit
    THEN LET matches == { j \in DOMAIN d : d[j].issue = token.issue }
         IN IF matches /= {}
            THEN [err |-> "",
                  id |-> CHOOSE x \in matches :
                            \A y \in matches : y = x \/ IdLess(x, y)]
            ELSE [err |-> "No jobs found for issue", id |-> NoJob]
    ELSE [err |-> "Unknown job", id |-> NoJob]

\* one error for every token that resolves to nothing
ResolveJobIdOneError(d, token) ==
    IF ~token.isdigit /\ token.id \in DOMAIN d
    THEN [err |-> "", id |-> token.id]
    ELSE IF token.isdigit /\ { j \in DOMAIN d : d[j].issue = token.issue } /= {}
    THEN [err |-> "", id |-> MaxId({ j \in DOMAIN d : d[j].issue = token.issue })]
    ELSE [err |-> "Unknown job", id |-> NoJob]

ResolveJobId(d, token) ==
    IF ~token.isdigit /\ token.id \in DOMAIN d
    THEN [err |-> "", id |-> token.id]
    ELSE IF token.isdigit
    THEN LET matches == { j \in DOMAIN d : d[j].issue = token.issue }
         IN IF matches /= {}
            THEN [err |-> "", id |-> MaxId(matches)]
            ELSE [err |-> "No jobs found for issue", id |-> NoJob]
    ELSE [err |-> "Unknown job", id |-> NoJob]

\* ptq/job.py get_job
GetJob(d, job_id) ==
    IF job_id \in DOMAIN d
    THEN [err |-> "", entry |-> <<d[job_id]>>]
    ELSE [err |-> "Unknown job", entry |-> << >>]

\* ptq/cli.py run JOB_ID: the positional argument is resolved and issue,
\* machine and local are taken from the entry of the resolved job; the
\* resolved id itself is not handed to launch_agent
RunJob(token, follow, message) ==
    /\ StartCmd
    /\ LET r == ResolveJobId(db, token)
       IN /\ r.err = ""
          /\ EnterLaunch("run", db[r.id].issue, db[r.id].machine, db[r.id].local,
                         follow, message, NoRes, r.id)
    /\ UNCHANGED <<peer, day, procs, fs, res, cancelCalls, result, trail>>

\* ptq/cli.py kill, resolve_job_id raises SystemExit: nothing is touched
KillFails(token) ==
    /\ StartCmd
    /\ ResolveJobId(db, token).err /= ""
    /\ Finish([NoResult EXCEPT !.op = "kill", !.job = token.id,
                               !.issue = token.issue,
                               !.outcome = ResolveJobId(db, token).err])
    /\ UNCHANGED <<peer, day, db, procs, fs, res, cancelCalls>>

KillClearsOnlyLivePid(token) ==
    /\ StartCmd
    /\ LET r == ResolveJobId(db, token)
       IN /\ r.err = ""
          /\ LET job     == db[r.id]
                 backend == BackendForJob(job)
                 pid     == job.pid
                 alive   == IsPidAlive(procs, backend, pid)
             IN /\ procs' = IF pid /= NoPid /\ alive
                            THEN KillPid(procs, backend, pid) ELSE procs
                /\ db' = IF pid /= NoPid /\ alive
                         THEN SavePid(db, r.id, NoPid) ELSE db
                /\ Finish([NoResult EXCEPT
                             !.op = "kill", !.job = r.id, !.pid = pid,
                             !.issue = token.issue,
                             !.outcome = IF pid = NoPid THEN "no_pid"
                                         ELSE IF alive THEN "killed"
                                         ELSE "already_stopped"])
    /\ UNCHANGED <<peer, day, fs, res, cancelCalls>>

\* ptq/cli.py kill
Kill(token) ==
    /\ StartCmd
    /\ LET r == ResolveJobId(db, token)
       IN /\ r.err = ""
          /\ LET job     == db[r.id]
                 backend == BackendForJob(job)
                 pid     == job.pid
                 alive   == IsPidAlive(procs, backend, pid)
             IN /\ procs' = IF pid /= NoPid /\ alive
                            THEN KillPid(procs, backend, pid) ELSE procs
                /\ db' = IF pid /= NoPid THEN SavePid(db, r.id, NoPid) ELSE db
                /\ Finish([NoResult EXCEPT
                             !.op = "kill", !.job = r.id, !.pid = pid,
                             !.issue = token.issue,
                             !.outcome = IF pid = NoPid THEN "no_pid"
                                         ELSE IF alive THEN "killed"
                                         ELSE "already_stopped"])
    /\ UNCHANGED <<peer, day, fs, res, cancelCalls>>

\* ptq/cli.py clean TARGET with a job id or an issue number of the
\* registry: _clean_single_job.  An exception out of cancel_reservation
\* ends the command after the kill, before the removal of the directory
\* and of the registry entry.
CleanSingleJob(token) ==
    /\ StartCmd
    /\ LET r == ResolveJobId(db, token)
       IN /\ r.err = ""
          /\ LET job     == db[r.id]
                 backend == BackendForJob(job)
                 pid     == job.pid
                 alive   == pid /= NoPid /\ IsPidAlive(procs, backend, pid)
                 killed  == IF alive THEN KillPid(procs, backend, pid) ELSE procs
                 res_id  == GetReservationId(db, r.id)
                 done    == [NoResult EXCEPT
                               !.op = "clean", !.job = r.id, !.pid = pid,
                               !.outcome = IF alive THEN "killed" ELSE "removed"]
             IN \E fault \in Faults, answer \in BOOLEAN :
                  LET c == IF res_id /= NoRes THEN CancelReservation(fault, answer)
                           ELSE [raised |-> "", value |-> FALSE]
                  IN /\ res_id = NoRes => (fault = "none" /\ ~answer)
                     /\ IF res_id /= NoRes
                        THEN /\ cancelCalls' = cancelCalls \cup {res_id}
                             /\ IF c.value /\ res[res_id] = "active"
                                THEN /\ res' = [res EXCEPT ![res_id] = "cancelled"]
                                     /\ procs' = TearDown(killed, PodName(res_id))
                                ELSE /\ res' = res
                                     /\ procs' = killed
                        ELSE /\ procs' = killed
                             /\ UNCHANGED <<res, cancelCalls>>
                     /\ IF c.raised /= ""
                        THEN /\ UNCHANGED <<fs, db>>
                             /\ Finish([done EXCEPT !.outcome = "crashed",
                                                    !.fault = fault])
                        ELSE /\ \E removed \in BOOLEAN :
                                  fs' = IF removed THEN RmRf(fs, backend, r.id)
                                        ELSE fs
                             /\ db' = DropJob(db, r.id)
                             /\ Finish([done EXCEPT !.fault = fault,
                                                    !.answer = c.value])
    /\ UNCHANGED <<peer, day>>

\* a call of cancel_reservation for a reservation
CancelCall(rid, fault, answer) ==
    /\ StartCmd
    /\ res[rid] /= "none"
    /\ LET c == CancelReservation(fault, answer)
       IN /\ cancelCalls' = cancelCalls \cup {rid}
          /\ IF c.value /\ res[rid] = "active"
             THEN /\ res' = [res EXCEPT ![rid] = "cancelled"]
                  /\ procs' = TearDown(procs, PodName(rid))
             ELSE UNCHANGED <<res, procs>>
          /\ Finish([NoResult EXCEPT
                       !.op = "cancel_reservation", !.res = rid,
                       !.fault = fault, !.answer = answer,
                       !.outcome = IF c.raised /= "" THEN c.raised
                                   ELSE IF c.value THEN "True" ELSE "False"])
    /\ UNCHANGED <<peer, day, db, fs>>

(***************************************************************************)
(* ptq/results.py fetch_results: copy the artifacts of a job from its      *)
(* target into the results directory.  present is the set of artifacts     *)
(* that exist in the job directory when the command runs (report.md,       *)
(* fix.diff and the logs are written by the agent).                        *)
(***************************************************************************)
\* [*ARTIFACTS, f"claude-{runs}.log"]
ArtifactNames(runs) ==
    <<"report.md", "fix.diff", "worklog.md", "claude-" \o ToString(runs) \o ".log">>

\* Backend.copy_from of a file: scp with check=True on a remote backend,
\* shutil.copy2 on the local one
CopyFrom(local, name, present) ==
    IF name \in present THEN "copied"
    ELSE IF local THEN "FileNotFoundError"
    ELSE "CalledProcessError"

\* the loop of fetch_results: except subprocess.CalledProcessError only
RECURSIVE FetchArtifacts(_, _, _, _)
FetchArtifacts(names, local, present, acc) ==
    IF names = << >> THEN acc
    ELSE LET name == Head(names)
             got  == CopyFrom(local, name, present)
         IN IF got = "copied"
            THEN FetchArtifacts(Tail(names), local, present,
                                [acc EXCEPT !.fetched = @ \cup {name}])
            ELSE IF got = "CalledProcessError"
            THEN FetchArtifacts(Tail(names), local, present,
                                [acc EXCEPT !.missing = @ \cup {name}])
            ELSE [acc EXCEPT !.raised = TRUE]

\* ptq/cli.py results: resolve_job_id, then fetch_results
Results(token, present) ==
    /\ StartCmd
    /\ LET r == ResolveJobId(db, token)
       IN /\ r.err = ""
          /\ LET job   == db[r.id]
                 dir   == <<BackendForJob(job), r.id>>
                 names == ArtifactNames(job.runs)
                 got   == FetchArtifacts(names, job.local, present,
                              [fetched |-> {}, missing |-> {}, raised |-> FALSE])
             IN /\ present \subseteq { names[i] : i \in 1..Len(names) }
                /\ "worklog.md" \in present <=>
                       (dir \in DOMAIN fs /\ fs[dir] /= << >>)
                /\ dir \notin DOMAIN fs => present = {}
                /\ Finish([NoResult EXCEPT
                             !.op = "results", !.job = r.id, !.run = job.runs,
                             !.local = job.local, !.machine = job.machine,
                             !.fetched = got.fetched, !.missing = got.missing,
                             !.outcome = IF got.raised THEN "crashed"
                                         ELSE "fetched"])
    /\ UNCHANGED <<peer, day, db, procs, fs, res, cancelCalls>>

(***************************************************************************)
(* Two invocations at once.  Every registry function reads the whole       *)
(* document (load_jobs_db), changes its copy and writes the whole document *)
(* back (save_jobs_db), without a lock: between the read and the write of  *)
(* one invocation the other may read and write.  save_pid of a launch in   *)
(* flight and the final "load, pop, save" of a _clean_single_job of a      *)
(* second invocation are split into their read and their write.            *)
(***************************************************************************)
\* save_pid, line 63: db = load_jobs_db()
SavePidLoad ==
    /\ pc = "savepid"
    /\ L' = [L EXCEPT !.db = <<db>>]
    /\ pc' = "savepid_write"
    /\ UNCHANGED <<peer, day, db, procs, fs, res, cancelCalls, result, trail, ncmd>>

\* save_pid, lines 64-70: return when the id is not in the loaded document,
\* else set the pid in it and save_jobs_db(db)
SavePidWrite ==
    /\ pc = "savepid_write"
    /\ db' = IF L.job \notin DOMAIN L.db[1] THEN db
             ELSE SavePid(L.db[1], L.job, L.pid)
    /\ L' = [L EXCEPT !.db = << >>]
    /\ pc' = IF L.follow THEN "follow" ELSE "nofollow"
    /\ UNCHANGED <<peer, day, procs, fs, res, cancelCalls, result, trail, ncmd>>

\* the second invocation is "ptq clean JOB": _clean_single_job up to the
\* removal of the job directory (lines 396-420), while a launch is in flight
PeerCleanBegin(token) ==
    /\ peer.pc = "none"
    /\ pc /= "idle"
    /\ LET r == ResolveJobId(db, token)
       IN /\ r.err = ""
          /\ LET job     == db[r.id]
                 backend == BackendForJob(job)
                 pid     == job.pid
                 alive   == pid /= NoPid /\ IsPidAlive(procs, backend, pid)
                 killed  == IF alive THEN KillPid(procs, backend, pid) ELSE procs
                 res_id  == GetReservationId(db, r.id)
             IN \E fault \in Faults, answer \in BOOLEAN :
                  LET c == IF res_id /= NoRes THEN CancelReservation(fault, answer)
                           ELSE [raised |-> "", value |-> FALSE]
                  IN /\ res_id = NoRes => (fault = "none" /\ ~answer)
                     /\ IF res_id /= NoRes
                        THEN /\ cancelCalls' = cancelCalls \cup {res_id}
                             /\ IF c.value /\ res[res_id] = "active"
                                THEN /\ res' = [res EXCEPT ![res_id] = "cancelled"]
                                     /\ procs' = TearDown(killed, PodName(res_id))
                                ELSE /\ res' = res
                                     /\ procs' = killed
                        ELSE /\ procs' = killed
                             /\ UNCHANGED <<res, cancelCalls>>
                     /\ IF c.raised /= ""
                        THEN /\ fs' = fs
                             /\ peer' = [pc |-> "done", job |-> r.id, db |-> << >>]
                        ELSE /\ \E removed \in BOOLEAN :
                                  fs' = IF removed THEN RmRf(fs, backend, r.id)
                                        ELSE fs
                             /\ peer' = [pc |-> "load", job |-> r.id, db |-> << >>]
    /\ UNCHANGED <<day, db, pc, L, result, trail, ncmd>>

\* _clean_single_job, line 422: db = load_jobs_db()
PeerCleanLoad ==
    /\ peer.pc = "load"
    /\ peer' = [peer EXCEPT !.pc = "save", !.db = <<db>>]
    /\ UNCHANGED <<day, db, procs, fs, res, cancelCalls, pc, L, result, trail, ncmd>>

\* _clean_single_job, lines 423-424: db.pop(job_id, None); save_jobs_db(db)
PeerCleanSave ==
    /\ peer.pc = "save"
    /\ db' = DropJob(peer.db[1], peer.job)
    /\ peer' = [peer EXCEPT !.pc = "done", !.db = << >>]
    /\ UNCHANGED <<day, procs, fs, res, cancelCalls, pc, L, result, trail, ncmd>>

(***************************************************************************)
(* ptq/cli.py _clean_machine: clean of every job of a machine (or of the   *)
(* local workspace).  The registry is loaded once, the selected jobs are   *)
(* processed in id order and the registry is saved after the loop; the     *)
(* "rm -rf" of a job directory runs with check=True, so a failing removal  *)
(* raises out of the loop.                                                 *)
(***************************************************************************)
\* sorted(db.items()): ascending by job id
RECURSIVE SortedIds(_)
SortedIds(S) ==
    IF S = {} THEN << >>
    ELSE LET last == MaxId(S) IN Append(SortedIds(S \ {last}), last)

CleanMatching(d, machine, local) ==
    SortedIds({ j \in DOMAIN d :
                  \/ local /\ d[j].local
                  \/ machine /= NoMachine /\ d[j].machine = machine })

Running(d, ps, backend, j) ==
    d[j].pid /= NoPid /\ IsPidAlive(ps, backend, d[j].pid)

CleanSelectedAll(d, ps, machine, local, include_running) ==
    CleanMatching(d, machine, local)

\* without --all the jobs whose pid is alive on the backend are skipped
CleanSelected(d, ps, machine, local, include_running) ==
    LET matching == CleanMatching(d, machine, local)
        backend  == BackendTarget(machine, local)
        stopped(j) == ~Running(d, ps, backend, j)
    IN IF include_running THEN matching ELSE SelectSeq(matching, stopped)

\* matching[:-keep] if keep and len(matching) > keep else matching
ToRemove(selected, keep) ==
    IF keep /= 0 /\ Len(selected) > keep
    THEN SubSeq(selected, 1, Len(selected) - keep)
    ELSE selected

RECURSIVE KillTracked(_, _, _, _)
KillTracked(ps, d, backend, jobs) ==
    IF jobs = << >> THEN ps
    ELSE LET pid == d[Head(jobs)].pid
             ps1 == IF pid /= NoPid /\ IsPidAlive(ps, backend, pid)
                    THEN KillPid(ps, backend, pid) ELSE ps
         IN KillTracked(ps1, d, backend, Tail(jobs))

RECURSIVE RemoveDirs(_, _, _)
RemoveDirs(f, backend, jobs) ==
    IF jobs = << >> THEN f
    ELSE RemoveDirs(RmRf(f, backend, Head(jobs)), backend, Tail(jobs))

RECURSIVE PopJobs(_, _)
PopJobs(d, jobs) ==
    IF jobs = << >> THEN d ELSE PopJobs(DropJob(d, Head(jobs)), Tail(jobs))

\* done: the number of jobs whose directory was removed before the loop
\* ended, by exhaustion (done = all) or by the raise of a failing "rm -rf"
CleanMachine(machine, local, keep, include_running) ==
    /\ StartCmd
    /\ machine /= NoMachine \/ local
    /\ LET backend   == BackendTarget(machine, local)
           selected  == CleanSelected(db, procs, machine, local, include_running)
           to_remove == ToRemove(selected, keep)
           n         == Len(to_remove)
           request   == [NoResult EXCEPT !.op = "clean_machine",
                                         !.machine = machine, !.local = local,
                                         !.keep = keep, !.all = include_running]
       IN IF n = 0
          THEN /\ Finish([request EXCEPT !.outcome = "nothing"])
               /\ UNCHANGED <<db, procs, fs>>
          ELSE \E done \in 0..n :
                 LET probed == IF done < n THEN done + 1 ELSE n
                 IN /\ procs' = KillTracked(procs, db, backend,
                                            SubSeq(to_remove, 1, probed))
                    /\ fs' = RemoveDirs(fs, backend, SubSeq(to_remove, 1, done))
                    /\ db' = IF done = n THEN PopJobs(db, to_remove) ELSE db
                    /\ Finish([request EXCEPT
                                 !.outcome = IF done = n THEN "cleaned"
                                             ELSE "failed"])
    /\ UNCHANGED <<peer, day, res, cancelCalls>>

(***************************************************************************)
(* The specifications.  The operator runs at most MaxCmds commands; the    *)
(* environment (agents ending, the date changing) moves between them.      *)
(***************************************************************************)
\* --machine NAME, --local, or both
RunTargets == { <<m, FALSE>> : m \in Machines } \cup
              { <<m, TRUE>> : m \in Machines \cup {NoMachine} }

LaunchSteps ==
    \/ StepOk
    \/ StepFails
    \/ MkdirJobDir
    \/ StampWorklog
    \/ Register
    \/ Launch
    \/ RecordPid
    \/ ReturnJobId
    \/ StreamEnds
    \/ Interrupt
    \/ DecodeFails

Environment ==
    \/ AgentExits
    \/ NextDay

RunIssue ==
    /\ ncmd < MaxCmds
    /\ \E n \in Issues, t \in RunTargets, f \in BOOLEAN, msg \in Steering :
         Run(n, t[1], t[2], f, msg)

RunAdhoc ==
    /\ ncmd < MaxCmds
    /\ \E t \in RunTargets, f \in BOOLEAN, msg \in AdhocTexts :
         Run(NoIssue, t[1], t[2], f, msg)

KillCmd == ncmd < MaxCmds /\ \E t \in Tokens : Kill(t)

CleanCmd == ncmd < MaxCmds /\ \E t \in Tokens : CleanSingleJob(t)

AutoCmd ==
    /\ ncmd < MaxCmds
    /\ \/ \E n \in Issues, f \in BOOLEAN : AutoReserveFails(n, f)
       \/ \E n \in Issues, f \in BOOLEAN, np \in BOOLEAN : AutoReserve(n, f, np)

AutoSteps ==
    \/ AutoSetupFails
    \/ AutoLaunch
    \/ AutoTrack
    \/ AutoFinally

Next ==
    \/ RunIssue
    \/ KillCmd
    \/ CleanCmd
    \/ LaunchSteps
    \/ Environment

Spec == Init /\ [][Next]_vars

\* a longer session of plain dispatches (no follow, no steering message)
RunPlain ==
    /\ ncmd < MaxDeep
    /\ \E n \in Issues, t \in RunTargets : Run(n, t[1], t[2], FALSE, NoMsg)

NextDeep ==
    \/ RunPlain
    \/ StepOk
    \/ StepFails
    \/ MkdirJobDir
    \/ StampWorklog
    \/ Register
    \/ Launch
    \/ RecordPid
    \/ ReturnJobId
    \/ Environment

SpecDeep == Init /\ [][NextDeep]_vars

\* "auto" next to dispatches without a steering message, kill and clean
RunNoMessage ==
    /\ ncmd < MaxCmds
    /\ \E n \in Issues, t \in RunTargets, f \in BOOLEAN :
         Run(n, t[1], t[2], f, NoMsg)

NextAuto ==
    \/ AutoCmd
    \/ AutoSteps
    \/ RunNoMessage
    \/ KillCmd
    \/ CleanCmd
    \/ LaunchSteps
    \/ Environment

SpecAuto == Init /\ [][NextAuto]_vars

\* dispatches and kill by job id or issue number, resolved or not
KillOpsCmd == ncmd < MaxDeep /\ \E t \in Tokens : Kill(t)

KillFailsCmd == ncmd < MaxDeep /\ \E t \in Tokens : KillFails(t)

NextOps ==
    \/ RunPlain
    \/ KillOpsCmd
    \/ KillFailsCmd
    \/ StepOk
    \/ MkdirJobDir
    \/ StampWorklog
    \/ Register
    \/ Launch
    \/ RecordPid
    \/ ReturnJobId
    \/ Environment

SpecOps == Init /\ [][NextOps]_vars

\* several jobs per target on one day (an issue and adhoc tasks) and clean
\* of a whole target, with --keep and --all
FleetTargets == { <<m, FALSE>> : m \in Machines } \cup {<<NoMachine, TRUE>>}

FleetTexts == {"task A", "task B"}

RunIssuePlain ==
    /\ ncmd < MaxDeep
    /\ \E n \in Issues, t \in FleetTargets : Run(n, t[1], t[2], FALSE, NoMsg)

RunAdhocPlain ==
    /\ ncmd < MaxDeep
    /\ \E t \in FleetTargets, msg \in FleetTexts :
         Run(NoIssue, t[1], t[2], FALSE, msg)

CleanMachineCmd ==
    /\ ncmd < MaxDeep
    /\ \E m \in Machines \cup {NoMachine}, l \in BOOLEAN, k \in 0..MaxKeep,
          a \in BOOLEAN : CleanMachine(m, l, k, a)

NextFleet ==
    \/ RunIssuePlain
    \/ RunAdhocPlain
    \/ CleanMachineCmd
    \/ StepOk
    \/ MkdirJobDir
    \/ StampWorklog
    \/ Register
    \/ Launch
    \/ RecordPid
    \/ ReturnJobId
    \/ AgentExits

SpecFleet == Init /\ [][NextFleet]_vars

\* "auto" without follow, then clean of the job or of its pod
AutoNoFollowCmd ==
    /\ ncmd < MaxCmds
    /\ \E n \in Issues, np \in BOOLEAN : AutoReserve(n, FALSE, np)

CleanPodCmd ==
    /\ ncmd < MaxCmds
    /\ \E r \in ResIds, a \in BOOLEAN : CleanMachine(PodName(r), FALSE, 0, a)

\* cancel_reservation called for a reservation of the provider
CancelCmd ==
    /\ ncmd < MaxDeep
    /\ \E rid \in ResIds, fault \in Faults, answer \in BOOLEAN :
         CancelCall(rid, fault, answer)

NextPod ==
    \/ AutoNoFollowCmd
    \/ AutoSteps
    \/ CleanPodCmd
    \/ CleanCmd
    \/ CancelCmd
    \/ StepOk
    \/ StepFails
    \/ MkdirJobDir
    \/ StampWorklog
    \/ Register
    \/ Launch
    \/ RecordPid
    \/ ReturnJobId
    \/ Environment

SpecPod == Init /\ [][NextPod]_vars

\* dispatches and "ptq run JOB_ID" of a registered job
RunJobCmd ==
    /\ ncmd < MaxDeep
    /\ \E t \in Tokens, msg \in Steering : RunJob(t, FALSE, msg)

NextRerun ==
    \/ RunIssuePlain
    \/ RunAdhocPlain
    \/ RunJobCmd
    \/ StepOk
    \/ EscapeMessageFails
    \/ MkdirJobDir
    \/ StampWorklog
    \/ Register
    \/ Launch
    \/ RecordPid
    \/ ReturnJobId
    \/ Environment

SpecRerun == Init /\ [][NextRerun]_vars

\* dispatches to a machine and to the local workspace, and "ptq results"
ResultsCmd ==
    /\ ncmd < MaxDeep
    /\ \E t \in Tokens, run \in 1..MaxDeep :
         \E present \in SUBSET { ArtifactNames(run)[i] : i \in 1..4 } :
            Results(t, present)

NextResults ==
    \/ RunIssuePlain
    \/ ResultsCmd
    \/ StepOk
    \/ MkdirJobDir
    \/ StampWorklog
    \/ Register
    \/ Launch
    \/ RecordPid
    \/ ReturnJobId
    \/ AgentExits

SpecResults == Init /\ [][NextResults]_vars

(***************************************************************************)
(* ptq/cli.py registers setup, run, auto, results, apply, clean, list,     *)
(* peek, status and kill on app.  "ptq prune" is none of them: the         *)
(* invocation ends with a usage error before any code of ptq runs.         *)
(***************************************************************************)
Prune(machine, local) ==
    /\ StartCmd
    /\ Finish([NoResult EXCEPT !.op = "prune", !.outcome = "usage_error",
                               !.machine = machine, !.local = local])
    /\ UNCHANGED <<peer, day, db, fs, procs, res, cancelCalls>>

PruneCmd ==
    /\ ncmd < MaxDeep
    /\ \E t \in FleetTargets : Prune(t[1], t[2])

NextPrune ==
    \/ RunIssuePlain
    \/ PruneCmd
    \/ StepOk
    \/ MkdirJobDir
    \/ StampWorklog
    \/ Register
    \/ Launch
    \/ RecordPid
    \/ ReturnJobId
    \/ AgentExits

SpecPrune == Init /\ [][NextPrune]_vars

\* a dispatch in flight next to "ptq clean JOB" of a second invocation
PeerCleanCmd == \E t \in Tokens : PeerCleanBegin(t)

NextRace ==
    \/ RunIssuePlain
    \/ PeerCleanCmd
    \/ PeerCleanLoad
    \/ PeerCleanSave
    \/ StepOk
    \/ MkdirJobDir
    \/ StampWorklog
    \/ Register
    \/ Launch
    \/ SavePidLoad
    \/ SavePidWrite
    \/ ReturnJobId
    \/ AgentExits

SpecRace == Init /\ [][NextRace]_vars

(***************************************************************************)
(* ptq/agent.py _truncate.  A text is a sequence of characters; the line   *)
(* breaks of str.splitlines that the texts contain are "\n", "\r" and the  *)
(* pair "\r\n".                                                            *)
(***************************************************************************)
Chars == {"a", "\n", "\r"}

Texts == UNION { [1..n -> Chars] : n \in 0..MaxText }

RECURSIVE SplitFrom(_, _, _, _)
SplitFrom(s, i, cur, acc) ==
    IF i > Len(s)
    THEN IF cur /= << >> THEN Append(acc, cur) ELSE acc
    ELSE IF s[i] = "\r" /\ i < Len(s) /\ s[i + 1] = "\n"
    THEN SplitFrom(s, i + 2, << >>, Append(acc, cur))
    ELSE IF s[i] \in {"\n", "\r"}
    THEN SplitFrom(s, i + 1, << >>, Append(acc, cur))
    ELSE SplitFrom(s, i + 1, Append(cur, s[i]), acc)

\* str.splitlines(): no empty last line after a final line break
Splitlines(s) == SplitFrom(s, 1, << >>, << >>)

RECURSIVE Join(_)
\* "\n".join(lines)
Join(lines) ==
    IF lines = << >> THEN << >>
    ELSE IF Len(lines) = 1 THEN lines[1]
    ELSE lines[1] \o <<"\n">> \o Join(Tail(lines))

RECURSIVE Decimal(_)
\* str(n) for n >= 0
Decimal(n) ==
    LET digit == <<"0", "1", "2", "3", "4", "5", "6", "7", "8", "9">>
    IN IF n < 10 THEN <<digit[n + 1]>>
       ELSE Decimal(n \div 10) \o <<digit[(n % 10) + 1]>>

\* f"... ({k} more lines)"
MoreLines(k) ==
    <<".", ".", ".", " ", "(">> \o Decimal(k) \o
    <<" ", "m", "o", "r", "e", " ", "l", "i", "n", "e", "s", ")">>

\* the marker counts every line of the text
TruncateCountsAll(text, max_lines) ==
    LET lines == Splitlines(text)
    IN IF Len(lines) <= max_lines THEN text
       ELSE Join(SubSeq(lines, 1, max_lines)) \o <<"\n">> \o
            MoreLines(Len(lines))

Truncate(text, max_lines) ==
    LET lines == Splitlines(text)
    IN IF Len(lines) <= max_lines THEN text
       ELSE Join(SubSeq(lines, 1, max_lines)) \o <<"\n">> \o
            MoreLines(Len(lines) - max_lines)

\* a call _truncate(text, max_lines)
TruncateCall(text, max_lines) ==
    /\ StartCmd
    /\ Finish([NoResult EXCEPT !.op = "_truncate", !.outcome = "returned",
                               !.text = text, !.max_lines = max_lines,
                               !.out = Truncate(text, max_lines)])
    /\ UNCHANGED <<peer, day, db, fs, procs, res, cancelCalls>>

\* the function keeps no state: one call from the initial state
TruncateCmd ==
    /\ ncmd = 0
    /\ \E text \in Texts, max_lines \in 0..MaxLines :
         TruncateCall(text, max_lines)

NextDecode ==
    \/ TruncateCmd

SpecDecode == Init /\ [][NextDecode]_vars

(***************************************************************************)
(* ptq/job.py: the registry functions called one at a time, for a job id   *)
(* that is in the registry or not.  increment_run reads db[job_id] and     *)
(* raises KeyError for an id that is not there.                            *)
(***************************************************************************)
RegistryCall(fn, job_id, pid, reservation_id) ==
    /\ StartCmd
    /\ db' = IF fn = "increment_run" /\ job_id \in DOMAIN db
             THEN IncrementRun(db, job_id)
             ELSE IF fn = "save_pid" THEN SavePid(db, job_id, pid)
             ELSE IF fn = "save_reservation_id"
             THEN SaveReservationId(db, job_id, reservation_id)
             ELSE db
    /\ Finish([NoResult EXCEPT
                 !.op = fn, !.job = job_id,
                 !.pid = IF fn = "save_pid" THEN pid ELSE NoPid,
                 !.res = IF fn = "save_reservation_id" THEN reservation_id
                         ELSE IF fn = "get_reservation_id"
                         THEN GetReservationId(db, job_id)
                         ELSE NoRes,
                 !.run = IF fn = "increment_run" /\ job_id \in DOMAIN db
                         THEN db[job_id].runs + 1 ELSE 0,
                 !.outcome = IF fn = "increment_run" /\ job_id \notin DOMAIN db
                             THEN "KeyError" ELSE "returned"])
    /\ UNCHANGED <<peer, day, fs, procs, res, cancelCalls>>

RegistryCmd ==
    /\ ncmd < MaxDeep
    /\ \E fn \in {"increment_run", "save_pid", "save_reservation_id",
                  "get_reservation_id"},
          j \in JobIds, pid \in {NoPid, 1, 2}, rid \in ResIds :
         RegistryCall(fn, j, pid, rid)

NextRegistry ==
    \/ RunIssuePlain
    \/ RegistryCmd
    \/ StepOk
    \/ MkdirJobDir
    \/ StampWorklog
    \/ Register
    \/ Launch
    \/ RecordPid
    \/ ReturnJobId

SpecRegistry == Init /\ [][NextRegistry]_vars

(***************************************************************************)
(* Properties.                                                             *)
(***************************************************************************)
\* launch_agent has recorded the pid of the agent it launched
PidRecorded == pc \in {"follow", "nofollow"}

\* the command before the running one was a successful dispatch of the
\* issue and target that the running launch_agent was given
SecondInARow ==
    /\ PidRecorded
    /\ L.cmd = "run"
    /\ L.issue /= NoIssue
    /\ Successful(result)
    /\ result.issue = L.issue
    /\ result.machine = L.machine
    /\ result.local = L.local

\* C1: two successful dispatches in a row of launch_agent for the same
\* issue and target use the same job id; after the second the registry
\* entry of that id counts one run more than after the first (2 when the
\* first created the job) and its pid is the pid the second
\* launch_background returned, which is not the pid of the first.
C1_RedispatchReusesJob ==
    SecondInARow =>
        /\ L.job = result.job
        /\ L.job \in DOMAIN db
        /\ db[L.job].runs = result.run + 1
        /\ (result.run = 1 => db[L.job].runs = 2)
        /\ db[L.job].pid = L.pid
        /\ L.pid /= NoPid
        /\ L.pid /= result.pid

C1_Witness ==
    /\ SecondInARow
    /\ result.run = 1
    /\ db[L.job].runs = 2
    /\ db[L.job].pid = L.pid

\* the command before the running one was a successful dispatch of the
\* same issue to another target
OtherTargetBefore ==
    /\ PidRecorded
    /\ L.cmd = "run"
    /\ L.issue /= NoIssue
    /\ Successful(result)
    /\ result.issue = L.issue
    /\ BackendTarget(result.machine, result.local) /= LaunchTarget

\* C2: jobs of one issue on different targets are independent: after a
\* dispatch of issue n to t1 and then one to another target t2 the registry
\* holds two distinct entries and the entry of t1 is as the first dispatch
\* left it.
C2_TargetsIndependent ==
    OtherTargetBefore =>
        /\ L.job /= result.job
        /\ result.job \in DOMAIN db
        /\ db[result.job].runs = result.run
        /\ db[result.job].pid = result.pid
        /\ BackendForJob(db[result.job]) =
               BackendTarget(result.machine, result.local)

\* C3: at every moment at most one agent process launched for a job (a job
\* id on its target) is alive.
C3_OneLiveAgentPerJob ==
    \A p, q \in procs :
        (p.alive /\ q.alive /\ p.job = q.job /\ p.target = q.target) => p = q

\* C4: as long as the registry entry of a job id exists, its runs value
\* never decreases.
C4_RunsNeverDecrease ==
    [][\A j \in DOMAIN db \cap DOMAIN db' : db'[j].runs >= db[j].runs]_vars

\* C5: the pid of a job is cleared when a followed run reaches "Agent
\* finished" with the agent ended, on kill, and when a new run starts.
C5_PidCleared ==
    /\ ( /\ pc = "idle"
         /\ result.op = "run"
         /\ result.outcome = "finished"
         /\ result.job \in DOMAIN db
         /\ ~IsPidAlive(procs, BackendTarget(result.machine, result.local),
                        result.pid) )
       => db[result.job].pid = NoPid
    /\ (pc = "idle" /\ result.op = "kill" /\ result.job \in DOMAIN db)
       => db[result.job].pid = NoPid
    /\ (pc = "validate" /\ L.existing) => db[L.job].pid = NoPid

\* C6: increment_run adds exactly 1 to runs, removes the stored pid,
\* persists and returns the new runs value, leaving the rest of the registry
\* alone; so from the start of a re-dispatch until save_pid records the new
\* pid the entry carries no pid, and save_pid then records the new one.
BeforeSavePid ==
    pc \in {"validate", "mkdir", "worktree", "settings", "stamp", "upload",
            "register", "touch", "launch", "savepid"}

C6_IncrementRun ==
    [][ /\ (pc = "idle" /\ pc' = "validate") =>
            /\ L'.job \in DOMAIN db
            /\ db' = [db EXCEPT ![L'.job] =
                         [@ EXCEPT !.runs = @ + 1, !.pid = NoPid]]
            /\ L'.run = db[L'.job].runs + 1
        /\ (BeforeSavePid /\ L.existing) => db[L.job].pid = NoPid
        /\ (pc = "savepid" /\ L.existing) => db'[L.job].pid = L.pid
      ]_vars

\* a re-dispatch is about to record its pid while an earlier agent of the
\* job, whose pid the entry held, is known
C6_Witness ==
    /\ pc = "savepid"
    /\ L.existing
    /\ db[L.job].pid = NoPid
    /\ db[L.job].runs = 2
    /\ \E p \in procs : p.job = L.job /\ p.target = LaunchTarget /\ p.pid /= L.pid

\* C7: an agent process is started for run r of a job only when the last
\* header of the job's worklog is the "## Run r" header.
Started(p) == ~\E q \in procs : q.target = p.target /\ q.pid = p.pid

C7_StampBeforeLaunch ==
    [][\A p \in procs' :
         Started(p) =>
            /\ <<p.target, p.job>> \in DOMAIN fs
            /\ fs[<<p.target, p.job>>] /= << >>
            /\ fs[<<p.target, p.job>>][Len(fs[<<p.target, p.job>>])].run = p.run
      ]_vars

C7_Witness ==
    /\ pc = "savepid"
    /\ L.run = 2
    /\ \E p \in procs : p.target = LaunchTarget /\ p.pid = L.pid /\ p.run = 2
    /\ Len(fs[<<LaunchTarget, L.job>>]) = 2

\* C8: when all that happened to a job is k successful dispatches of its
\* issue to its target, the worklog holds exactly k headers, Run 1 .. Run k
\* in that order, each with the steering message of its dispatch (none when
\* the dispatch had no message).
C8_WorklogHeaders ==
    (pc = "idle" /\ trail.st = "ok") =>
        LET dir == <<BackendTarget(trail.machine, trail.local), trail.job>>
        IN /\ dir \in DOMAIN fs
           /\ Len(fs[dir]) = Len(trail.msgs)
           /\ \A i \in 1..Len(trail.msgs) :
                /\ fs[dir][i].run = i
                /\ fs[dir][i].user = trail.msgs[i]

C8_Witness ==
    /\ pc = "idle"
    /\ trail.st = "ok"
    /\ trail.msgs = <<NoMsg, "try X">>
    /\ Len(fs[<<BackendTarget(trail.machine, trail.local), trail.job>>]) = 2

\* C9: an operator interrupt of a followed launch_agent ends only the local
\* tail: no agent process changes, the registry is unchanged (the pid stays)
\* and launch_agent returns the job id.
Interrupted ==
    /\ pc = "follow"
    /\ L.cmd = "run"
    /\ pc' = "idle"
    /\ result'.outcome = "detached"

C9_InterruptDetaches ==
    [][Interrupted =>
         /\ procs' = procs
         /\ db' = db
         /\ fs' = fs
         /\ result'.job = L.job
         /\ (L.job \in DOMAIN db => db'[L.job].pid = L.pid)
      ]_vars

\* interrupted while the agent is alive and tracked: detached, still alive
C9_Witness ==
    /\ pc = "idle"
    /\ result.op = "run"
    /\ result.outcome = "detached"
    /\ result.job \in DOMAIN db
    /\ db[result.job].pid = result.pid
    /\ IsPidAlive(procs, BackendTarget(result.machine, result.local), result.pid)

\* C10 as stated: once the agent is launched, a failure of observation
\* (json.loads raising in the follow loop), in run or in auto, ends no agent
\* process and tears down no reservation.
CrashInFollow ==
    /\ pc = "follow"
    /\ \/ pc' = "idle" /\ result'.outcome = "crashed"
       \/ pc' = "auto_finally" /\ L'.outcome = "crashed"

CrashInAuto == pc = "auto_finally" /\ L.outcome = "crashed"

SetupSteps ==
    {"validate", "mkdir", "worktree", "settings", "stamp", "upload",
     "register", "touch"}

LaunchAborts ==
    /\ pc /= "idle"
    /\ pc' = "idle"
    /\ result'.op = "run"
    /\ result'.outcome = "aborted"

C11_SetupFailureStartsNoAgent ==
    [][ /\ LaunchAborts =>
            /\ pc \in SetupSteps
            /\ L.pid = NoPid
            /\ procs' = procs
        /\ pc \in SetupSteps => (L.pid = NoPid /\ procs' = procs)
      ]_vars

\* the re-dispatch of an existing job was aborted: no pid, no new process
C11_Witness ==
    /\ pc = "idle"
    /\ result.op = "run"
    /\ result.outcome = "aborted"
    /\ result.run = 2
    /\ result.pid = NoPid
    /\ Cardinality(procs) = 1

\* C12: kill of a registered job does not fail when the agent is already
\* stopped and ends with no pid in the job's entry: a live tracked pid is
\* killed and cleared, a stopped one is only cleared, and without a tracked
\* pid the registry is left as it is; nothing else in the registry changes.
KillReturns ==
    /\ pc = "idle"
    /\ pc' = "idle"
    /\ ncmd' = ncmd + 1
    /\ result'.op = "kill"

C12_Kill ==
    [][ /\ \A j \in DOMAIN db : ResolveJobId(db, IdToken(j)).err = ""
        /\ KillReturns =>
            LET j      == result'.job
                pid    == db[j].pid
                target == BackendForJob(db[j])
                mine(p) == p.target = target /\ p.pid = pid
                alive  == \E p \in procs : mine(p) /\ p.alive
            IN /\ j \in DOMAIN db
               /\ db' = [db EXCEPT ![j].pid = NoPid]
               /\ pid = NoPid => (db' = db /\ procs' = procs)
               /\ (pid /= NoPid /\ ~alive) =>
                     (procs' = procs /\ result'.outcome = "already_stopped")
               /\ (pid /= NoPid /\ alive) =>
                     /\ \A p \in procs' : mine(p) => ~p.alive
                     /\ { p \in procs' : ~mine(p) } = { p \in procs : ~mine(p) }
                     /\ result'.outcome = "killed"
      ]_vars

\* kill found the tracked agent already stopped and cleared its pid
C12_Witness ==
    /\ pc = "idle"
    /\ result.op = "kill"
    /\ result.outcome = "already_stopped"
    /\ result.pid /= NoPid
    /\ result.job \in DOMAIN db
    /\ db[result.job].pid = NoPid

\* C13: clean of a single job always removes the job's registry entry and
\* leaves every other entry as it is; the tracked pid is killed only when
\* alive, the cancellation of a tracked reservation is attempted, and
\* neither a cancellation that fails nor a directory that stays behind
\* keeps the entry in the registry.
CleanReturns ==
    /\ pc = "idle"
    /\ pc' = "idle"
    /\ ncmd' = ncmd + 1
    /\ result'.op = "clean"

C13_CleanSingleJob ==
    [][CleanReturns =>
         LET j      == result'.job
             pid    == db[j].pid
             rid    == db[j].reservation_id
             target == BackendForJob(db[j])
             mine(p) == p.target = target /\ p.pid = pid
             onpod(p) == rid /= NoRes /\ p.target = PodName(rid)
             alive  == pid /= NoPid /\ \E p \in procs : mine(p) /\ p.alive
         IN /\ j \in DOMAIN db
            /\ db' = [k \in DOMAIN db \ {j} |-> db[k]]
            /\ rid /= NoRes => rid \in cancelCalls'
            /\ rid = NoRes => (cancelCalls' = cancelCalls /\ res' = res)
            /\ alive => \A p \in procs' : mine(p) => ~p.alive
            /\ { p \in procs' : ~mine(p) /\ ~onpod(p) } =
                   { p \in procs : ~mine(p) /\ ~onpod(p) }
            /\ (~alive /\ rid = NoRes) => procs' = procs
      ]_vars

\* C14: a clean operation (of one job or of a whole target) that deletes a
\* registry entry carrying a reservation_id has attempted the cancellation
\* of that reservation.
C14_CleanCancelsReservation ==
    [][\A j \in DOMAIN db \ DOMAIN db' :
         db[j].reservation_id /= NoRes =>
            db[j].reservation_id \in cancelCalls']_vars

\* clean of a whole target has returned
FleetReturns ==
    /\ pc = "idle"
    /\ pc' = "idle"
    /\ ncmd' = ncmd + 1
    /\ result'.op = "clean_machine"

Removed == DOMAIN db \ DOMAIN db'

\* the request names one target: a machine, or --local
OneTarget == (result'.machine /= NoMachine) /= result'.local

C16_FleetCleanKeepsNewest ==
    [][(FleetReturns /\ OneTarget /\ result'.keep >= 1
                      /\ result'.outcome /= "failed") =>
         LET backend == BackendTarget(result'.machine, result'.local)
             sel == { j \in DOMAIN db :
                        /\ \/ result'.local /\ db[j].local
                           \/ /\ result'.machine /= NoMachine
                              /\ db[j].machine = result'.machine
                        /\ result'.all \/ ~Running(db, procs, backend, j) }
             m == Cardinality(sel)
             N == result'.keep
         IN /\ Removed \subseteq sel
            /\ Cardinality(Removed) = IF m > N THEN m - N ELSE 0
            /\ \A r \in Removed, k \in sel \ Removed : IdLess(r, k)
      ]_vars

\* C17: when the removal of one job directory fails during clean of one
\* target, the other selected jobs are still processed, and every
\* job whose directory was removed is dropped from the registry.
C17_FleetCleanGoesOn ==
    [][(FleetReturns /\ OneTarget) =>
         LET backend == BackendTarget(result'.machine, result'.local)
             sel == ToRemove(CleanSelected(db, procs, result'.machine,
                                           result'.local, result'.all),
                             result'.keep)
             left == { i \in 1..Len(sel) : <<backend, sel[i]>> \in DOMAIN fs' }
         IN /\ \A j \in DOMAIN db :
                 (<<backend, j>> \in DOMAIN fs /\ <<backend, j>> \notin DOMAIN fs')
                     => j \notin DOMAIN db'
            /\ result'.outcome = "failed" =>
                 /\ Cardinality(left) <= 1
                 /\ \A i \in 1..Len(sel) : i \notin left => sel[i] \notin DOMAIN db'
      ]_vars

\* C18: find_existing_job, as launch_agent calls it for an issue, returns
\* the greatest job id among the entries of that issue whose target is the
\* target the launcher runs on, and none when there is no such entry.
OnLaunchTarget ==
    { j \in DOMAIN db :
        db[j].issue = L.issue /\ BackendForJob(db[j]) = LaunchTarget }

C18_FindExistingJobExactTarget ==
    /\ (pc = "validate" /\ L.issue /= NoIssue) =>
          /\ L.job \in OnLaunchTarget
          /\ \A k \in OnLaunchTarget : k = L.job \/ IdLess(k, L.job)
    /\ (pc = "mkdir" /\ L.issue /= NoIssue /\ ~L.existing) =>
          OnLaunchTarget = {}

\* C19: resolve_job_id returns a token that is a key of the registry as it
\* is and, for an issue number with entries, the job id whose string is the
\* greatest among the entries of that issue; a kill that resolved its token
\* this way changes the registry by nothing but the pid it clears.
OfIssue(n) == { j \in DOMAIN db : db[j].issue = n }

C19_ResolveJobId ==
    [][ /\ \A j \in DOMAIN db :
             ResolveJobId(db, IdToken(j)) = [err |-> "", id |-> j]
        /\ \A n \in Issues :
             OfIssue(n) /= {} =>
                LET r == ResolveJobId(db, IssueToken(n))
                IN /\ r.err = ""
                   /\ r.id \in OfIssue(n)
                   /\ \A k \in OfIssue(n) : ~StrLess(IdStr(r.id), IdStr(k))
        /\ (KillReturns /\ result'.outcome \in {"killed", "already_stopped", "no_pid"}) =>
             /\ result'.issue /= NoIssue =>
                   /\ result'.job \in OfIssue(result'.issue)
                   /\ \A k \in OfIssue(result'.issue) :
                        ~StrLess(IdStr(result'.job), IdStr(k))
             /\ DOMAIN db' = DOMAIN db
             /\ \A k \in DOMAIN db : [db'[k] EXCEPT !.pid = NoPid] =
                                     [db[k] EXCEPT !.pid = NoPid]
      ]_vars

\* kill by issue number with two jobs of the issue: the later one was meant
C19_Witness ==
    /\ pc = "idle"
    /\ result.op = "kill"
    /\ result.outcome = "killed"
    /\ result.issue /= NoIssue
    /\ Cardinality(OfIssue(result.issue)) = 2
    /\ \A k \in OfIssue(result.issue) : k = result.job \/ IdLess(k, result.job)

\* C20: resolve_job_id fails with "No jobs found for issue" exactly for an
\* all-digit token without an entry of that issue and with "Unknown job"
\* exactly for a token that is neither a key nor all digits; get_job fails
\* with "Unknown job" exactly for an absent id; a kill that fails this way
\* leaves registry, processes and directories as they were.
C20_ResolveErrors ==
    [][ /\ \A t \in Tokens :
             LET r == ResolveJobId(db, t)
             IN /\ (r.err = "No jobs found for issue") <=>
                       (t.isdigit /\ OfIssue(t.issue) = {})
                /\ (r.err = "Unknown job") <=>
                       (~t.isdigit /\ t.id \notin DOMAIN db)
                /\ r.err \in {"", "No jobs found for issue", "Unknown job"}
        /\ \A j \in JobIds :
             (GetJob(db, j).err = "Unknown job") <=> (j \notin DOMAIN db)
        /\ (KillReturns /\ result'.outcome = "No jobs found for issue") =>
             /\ result'.issue /= NoIssue
             /\ OfIssue(result'.issue) = {}
             /\ UNCHANGED <<db, procs, fs>>
        /\ (KillReturns /\ result'.outcome = "Unknown job") =>
             /\ result'.issue = NoIssue
             /\ result'.job \notin DOMAIN db
             /\ UNCHANGED <<db, procs, fs>>
      ]_vars

\* kill of an id that is not registered, next to a registered job
C20_Witness ==
    /\ pc = "idle"
    /\ result.op = "kill"
    /\ result.outcome = "Unknown job"
    /\ result.job \notin DOMAIN db
    /\ DOMAIN db /= {}


\* C21: save_pid for a job id that is not in the registry changes nothing;
\* when a second invocation has cleaned the job while its launch is in
\* flight, no step of the launcher's save_pid brings the removed entry back,
\* however the reads and writes of the two invocations interleave.
C21_SavePidNeverRecreates ==
    [][(pc \in {"savepid", "savepid_write"} /\ pc' /= pc
          /\ L.job \notin DOMAIN db) => db' = db]_vars


\* C22: a dispatch without an issue number mints a new job: its job id is
\* not a key of the registry, it continues no entry (increment_run is not
\* applied, the registry is not touched when the id is resolved), and it
\* registers the new entry with runs = 1 next to the entries already there.
C22_AdhocMintsNewJob ==
    [][ /\ (pc = "idle" /\ pc' /= "idle" /\ L'.cmd = "run" /\ L'.issue = NoIssue) =>
            /\ L'.job \notin DOMAIN db
            /\ ~L'.existing
            /\ L'.run = 1
            /\ db' = db
        /\ (pc = "register" /\ L.issue = NoIssue) =>
            /\ L.job \notin DOMAIN db
            /\ DOMAIN db' = DOMAIN db \cup {L.job}
            /\ db'[L.job].runs = 1
            /\ \A k \in DOMAIN db : db'[k] = db[k]
      ]_vars


\* C23: "run JOB_ID" of a registered job, issue-backed or adhoc, continues
\* that job: launch_agent works on the resolved job id, the runs of that
\* entry grow by 1 (its pid is cleared for the new run), and the launch
\* creates no registry entry.
C23_RerunContinuesJob ==
    [][ /\ (pc = "idle" /\ pc' /= "idle" /\ L'.rerun /= NoJob) =>
            /\ L'.job = L'.rerun
            /\ L'.existing
            /\ L'.run = db[L'.rerun].runs + 1
            /\ db' = [db EXCEPT ![L'.rerun] =
                         [@ EXCEPT !.runs = @ + 1, !.pid = NoPid]]
        /\ (pc /= "idle" /\ L.rerun /= NoJob) => DOMAIN db' \subseteq DOMAIN db
      ]_vars


\* C24: when "auto" ends, every reservation that was created for it has had
\* its cancellation attempted if the command follows the agent, whatever
\* the way it ends; a command that does not follow cancels nothing.
AutoEnds ==
    /\ pc' = "idle"
    /\ result'.op = "auto"
    /\ pc = "auto_finally" \/ (pc = "idle" /\ ncmd' = ncmd + 1)

CreatedForAuto(rid) ==
    \/ pc = "auto_finally" /\ rid = L.res
    \/ res[rid] = "none" /\ res'[rid] /= "none"

C24_AutoCancelsOnExit ==
    [][AutoEnds =>
         \A rid \in ResIds :
            CreatedForAuto(rid) =>
               IF result'.follow THEN rid \in cancelCalls'
               ELSE cancelCalls' = cancelCalls /\ res'[rid] = "active"
      ]_vars


\* C25: every registry entry carries exactly one target descriptor: an entry
\* with local = true has no machine, and an entry without local has a
\* machine that is not empty.
C25_OneTargetDescriptor ==
    \A j \in DOMAIN db :
        /\ db[j].local => db[j].machine = NoMachine
        /\ ~db[j].local => db[j].machine /= NoMachine

\* a dispatch with both --machine and --local registered its job as local,
\* without the machine
C25_Witness ==
    /\ pc = "idle"
    /\ result.op = "run"
    /\ result.local
    /\ result.machine /= NoMachine
    /\ result.job \in DOMAIN db
    /\ db[result.job].runs = 1
    /\ db[result.job].local
    /\ db[result.job].machine = NoMachine


\* C26: fetch_results of a registered job, on the local or on a remote
\* backend, completes whatever artifacts are missing on the target: every
\* one of report.md, fix.diff, worklog.md and claude-<runs>.log is either
\* copied or reported missing, and the worklog is copied exactly when the
\* job directory holds one.
ResultsReturns ==
    /\ pc = "idle"
    /\ pc' = "idle"
    /\ ncmd' = ncmd + 1
    /\ result'.op = "results"

C26_FetchResultsCompletes ==
    [][ResultsReturns =>
         LET names == { ArtifactNames(result'.run)[i] : i \in 1..4 }
             dir   == <<BackendTarget(result'.machine, result'.local), result'.job>>
         IN /\ result'.outcome = "fetched"
            /\ result'.fetched \cup result'.missing = names
            /\ result'.fetched \cap result'.missing = {}
            /\ "worklog.md" \in result'.fetched <=>
                   (dir \in DOMAIN fs /\ fs[dir] /= << >>)
      ]_vars


\* C27: no line of the agent log crashes the followed stream: the follow
\* loop of launch_agent ends only when the stream ends ("finished") or the
\* operator interrupts ("detached"), never by a line that cannot be decoded.
C27_DecodeNeverCrashes ==
    [][(pc = "follow" /\ pc' = "idle" /\ result'.op = "run") =>
          result'.outcome \in {"finished", "detached"}]_vars


\* C28: cancel_reservation never raises: whatever fails in the provider
\* (configuration, authentication, the cancel call) it returns False, it
\* returns the provider's answer when nothing fails, and a call for a
\* reservation that is already cancelled changes nothing.
CancelReturns ==
    /\ pc = "idle"
    /\ pc' = "idle"
    /\ ncmd' = ncmd + 1
    /\ result'.op = "cancel_reservation"

C28_CancelNeverRaises ==
    [][CancelReturns =>
         /\ result'.outcome \in {"True", "False"}
         /\ result'.fault /= "none" => result'.outcome = "False"
         /\ result'.fault = "none" =>
               result'.outcome = (IF result'.answer THEN "True" ELSE "False")
         /\ res[result'.res] = "cancelled" => (res' = res /\ procs' = procs)
      ]_vars


\* C29: prune of a target kills every pid the registry tracks for the
\* target that is alive, leaves the processes of tracked pids that have
\* stopped as they are and clears those pids from the registry, and kills
\* every agent process on the target whose pid no registry entry tracks.
PruneReturns ==
    /\ pc = "idle"
    /\ pc' = "idle"
    /\ ncmd' = ncmd + 1
    /\ result'.op = "prune"

C29_Prune ==
    [][PruneReturns =>
         LET target  == BackendTarget(result'.machine, result'.local)
             mine    == { j \in DOMAIN db :
                            BackendForJob(db[j]) = target /\ db[j].pid /= NoPid }
             tracked == { db[j].pid : j \in mine }
             known   == { db[j].pid : j \in DOMAIN db }
             now(p)  == \E q \in procs' :
                           q.target = p.target /\ q.pid = p.pid /\ q.alive
         IN /\ \A p \in procs :
                 (p.target = target /\ p.alive /\ p.pid \in tracked) => ~now(p)
            /\ \A j \in mine :
                 ~IsPidAlive(procs, target, db[j].pid) =>
                     (j \in DOMAIN db' /\ db'[j].pid = NoPid)
            /\ \A p \in procs : (p.target = target /\ ~p.alive) => p \in procs'
            /\ \A p \in procs :
                 (p.target = target /\ p.alive /\ p.pid \notin known) => ~now(p)
      ]_vars


\* C31: _truncate(text, max_lines) returns the text unchanged when it has
\* at most max_lines lines; otherwise the result is the first max_lines
\* lines of the text followed by the one marker line "... (K more lines)"
\* with K = number of lines - max_lines, the lines separated by "\n".
TruncateAsClaimed ==
    LET lines == Splitlines(result.text)
        n     == result.max_lines
    IN IF Len(lines) <= n
       THEN result.out = result.text
       ELSE /\ Splitlines(result.out) =
                  SubSeq(lines, 1, n) \o <<MoreLines(Len(lines) - n)>>
            /\ Cardinality({ i \in 1..Len(result.out) : result.out[i] = "\n" }) = n
            /\ \A i \in 1..Len(result.out) : result.out[i] /= "\r"

C31_Truncate ==
    result.op = "_truncate" => TruncateAsClaimed

\* C31 as amended: the same for max_lines >= 1 (with max_lines = 0 the
\* result begins with an empty line before the marker line).
C31_TruncateFromOneLine ==
    (result.op = "_truncate" /\ result.max_lines >= 1) => TruncateAsClaimed

\* a text of more lines than max_lines was cut, with a break "\r\n" in it
C31_Witness ==
    /\ result.op = "_truncate"
    /\ result.max_lines >= 1
    /\ Len(Splitlines(result.text)) > result.max_lines
    /\ \E i \in 1..Len(result.text) : result.text[i] = "\r"
    /\ result.out /= result.text


\* C32: fleet clean of a target removes and changes only registry entries
\* of the requested target (the machine of that name, the local entries
\* for --local): every other entry is the same before and after, and a
\* process is killed only when it is the tracked process, on the entry's
\* own target, of an entry the operation selected for removal.
Requested(j) ==
    \/ result'.local /\ db[j].local
    \/ result'.machine /= NoMachine /\ db[j].machine = result'.machine

C32_FleetCleanFrame ==
    [][FleetReturns =>
         LET sel == ToRemove(CleanSelected(db, procs, result'.machine,
                                           result'.local, result'.all),
                             result'.keep)
             chosen == { sel[i] : i \in 1..Len(sel) }
         IN /\ \A j \in DOMAIN db :
                 ~Requested(j) => (j \in DOMAIN db' /\ db'[j] = db[j])
            /\ \A j \in DOMAIN db' : j \in DOMAIN db /\ db'[j] = db[j]
            /\ \A p \in procs : p \notin procs' =>
                 \E j \in chosen : /\ BackendForJob(db[j]) = p.target
                                   /\ db[j].pid = p.pid
      ]_vars


\* C33: a dispatch that aborts before an agent was started leaves the
\* registry as it was when the dispatch began; the aborted re-dispatch of
\* an existing job changes neither the runs nor the pid of its entry.
C33_AbortLeavesRegistry ==
    [][(LaunchAborts /\ pc \in SetupSteps) => db' = L.before[1]]_vars


\* C34: the pid stored in a registry entry is the pid of a process that
\* launch_agent started for that job on the target the entry records (the
\* target backend_for_job derives from it), also when run is given a
\* machine together with --local.
C34_PidOnRecordedTarget ==
    \A j \in DOMAIN db :
        db[j].pid /= NoPid =>
            \E p \in procs : /\ p.job = j
                             /\ p.pid = db[j].pid
                             /\ p.target = BackendForJob(db[j])


\* C35: when every operation so far ran to completion (here: successful
\* dispatches only), every agent process that is alive is the tracked pid,
\* on its target, of some registry entry, so that kill or clean reaches it.
C35_LiveAgentsTracked ==
    (pc = "idle" /\ trail.st /= "broken") =>
        \A p \in procs :
            p.alive => \E j \in DOMAIN db : /\ db[j].pid = p.pid
                                            /\ BackendForJob(db[j]) = p.target


\* C36: when "auto" ends, every reservation created for it either has had
\* its cancellation attempted or is the reservation_id of a registry entry,
\* whatever the way the command ends.
C36_ReservationCancelledOrRecorded ==
    [][AutoEnds =>
         \A rid \in ResIds :
            CreatedForAuto(rid) =>
               \/ rid \in cancelCalls'
               \/ \E j \in DOMAIN db' : db'[j].reservation_id = rid
      ]_vars


\* C37: no two agent launches on the same target write the same log file
\* jobs/<job id>/claude-<run>.log: the launches of one job id on one target
\* have run numbers that differ, for issue-backed and for adhoc jobs.
C37_LogFilePerLaunch ==
    \A p, q \in procs :
        (p.target = q.target /\ p.job = q.job /\ p.run = q.run) => p = q


\* C38: after a clean operation, also one that stopped part-way at a
\* failing step, no entry that is left in the registry belongs to a job
\* whose directory on its target the operation has removed.
C38_NoEntryWithoutDirectory ==
    [][(FleetReturns \/ CleanReturns) =>
         \A j \in DOMAIN db \cap DOMAIN db' :
            LET dir == <<BackendForJob(db[j]), j>>
            IN dir \in DOMAIN fs => dir \in DOMAIN fs'
      ]_vars


\* C39: a reservation_id stored in a registry entry denotes a reservation
\* that has not been cancelled: once "auto" has cancelled the reservation
\* of a job, the entry of the job no longer carries its id.
C39_StoredReservationNotCancelled ==
    \A j \in DOMAIN db :
        db[j].reservation_id /= NoRes => res[db[j].reservation_id] /= "cancelled"

\* C39 as amended: a reservation_id stored in a registry entry denotes a
\* reservation that "auto" created, and the entry's target is the pod of
\* that reservation; the reservation may be cancelled already, for "auto"
\* leaves the registry as it is when it cancels the reservation on exit.
C39_StoredReservationWasCreated ==
    [][ /\ \A j \in DOMAIN db' :
             db'[j].reservation_id /= NoRes =>
                /\ res'[db'[j].reservation_id] /= "none"
                /\ ~db'[j].local
                /\ db'[j].machine = PodName(db'[j].reservation_id)
        /\ (AutoEnds /\ pc = "auto_finally") => db' = db
      ]_vars

\* a followed "auto" has ended with its reservation cancelled and the id
\* still on the job's entry
C39_Witness ==
    /\ pc = "idle"
    /\ result.op = "auto"
    /\ result.follow
    /\ result.job \in DOMAIN db
    /\ db[result.job].reservation_id = result.res
    /\ result.res \in cancelCalls
    /\ res[result.res] = "cancelled"


\* C40: called one at a time, increment_run, save_pid and
\* save_reservation_id for a job id X change, in the entry of X, only runs
\* and pid, only pid, and only reservation_id, and they leave every other
\* entry as it is; save_reservation_id and get_reservation_id for an id
\* that is not in the registry change nothing and raise nothing.
RegistryReturns ==
    /\ pc = "idle"
    /\ pc' = "idle"
    /\ ncmd' = ncmd + 1
    /\ result'.op \in {"increment_run", "save_pid", "save_reservation_id",
                       "get_reservation_id"}

Except(entry, fields) ==
    [f \in DOMAIN entry \ fields |-> entry[f]]

C40_RegistryFrame ==
    [][RegistryReturns =>
         LET X  == result'.job
             fn == result'.op
         IN /\ DOMAIN db' = DOMAIN db
            /\ \A k \in DOMAIN db : k /= X => db'[k] = db[k]
            /\ (X \in DOMAIN db /\ fn = "increment_run") =>
                  /\ Except(db'[X], {"runs", "pid"}) = Except(db[X], {"runs", "pid"})
                  /\ db'[X].runs = db[X].runs + 1
                  /\ db'[X].pid = NoPid
                  /\ result'.run = db'[X].runs
            /\ (X \in DOMAIN db /\ fn = "save_pid") =>
                  /\ Except(db'[X], {"pid"}) = Except(db[X], {"pid"})
                  /\ db'[X].pid = result'.pid
            /\ (X \in DOMAIN db /\ fn = "save_reservation_id") =>
                  /\ Except(db'[X], {"reservation_id"}) =
                        Except(db[X], {"reservation_id"})
                  /\ db'[X].reservation_id = result'.res
            /\ (X \in DOMAIN db /\ fn = "get_reservation_id") =>
                  (db' = db /\ result'.res = db[X].reservation_id)
            /\ (X \notin DOMAIN db /\ fn /= "increment_run") =>
                  (db' = db /\ result'.outcome = "returned")
            /\ (X \notin DOMAIN db /\ fn = "get_reservation_id") =>
                  result'.res = NoRes
      ]_vars

\* save_reservation_id returned for a job id that is not in the registry,
\* next to an entry with a tracked pid
C40_Witness ==
    /\ pc = "idle"
    /\ result.op = "save_reservation_id"
    /\ result.outcome = "returned"
    /\ result.job \notin DOMAIN db
    /\ \E k \in DOMAIN db : db[k].pid /= NoPid

=============================================================================
